---- MODULE Spec2Model ----
(***************************************************************************)
(* Model of fitamord's relational merge-collect engine                     *)
(* (fitamord/relational.py, fitamord/collections.py, fitamord/records.py). *)
(*                                                                         *)
(* Python values are encoded as follows.                                   *)
(*   - A record (row) is a tuple of cells; a cell is a natural number or   *)
(*     None.  Rows are <<id, val>>.                                        *)
(*   - A column key is a tagged tuple: <<"int", i>> (0-based index),       *)
(*     <<"str", s>> (column name) or <<"none">> (Python None).             *)
(*   - Python indices are 0-based and kept 0-based in the model; a         *)
(*     sequence is read at index + 1.                                      *)
(***************************************************************************)
EXTENDS Integers, Sequences, FiniteSets, TLC

\* ------------------------------------------------------------------ bounds
MaxRels == 2      \* relations handed to one MergeCollect
MaxRecs == 4      \* records of all relations of one MergeCollect together
MaxKey == 2       \* non-null key values are 1..MaxKey
MaxYield == 2     \* groups one run of the model lets an iteration yield
MaxIters == 2     \* merge_collect() calls on one MergeCollect
MaxSteps == 3     \* next() calls the records of one stream answer
MaxRows == 2      \* rows of a stream that is queried
MaxCalls == 2     \* project, select and order_by calls on one stream
MaxFields == 2    \* field definitions in one argument of Header(...)
MaxAdds == 3      \* Relations.add calls on one Relations
MaxText == 3      \* characters of a string that is quoted and unquoted
MaxVals == 3      \* values handed to indices_of_minimums

\* ------------------------------------------------------------ Python values
None == -1        \* the cell None
Sentinel == -2    \* itertools.groupby's initial currkey / tgtkey (object())
NoGroup == -3     \* the default of next(groupby, None): cursor is None

NoName == "<None>"        \* RecordStream._name is None
Unknown == "<unknown>"    \* RecordStream.name of an unnamed stream
NoHeader == << >>         \* RecordStream._header is None (a Header has >= 1 field)

IntKey(i) == <<"int", i>>
StrKey(s) == <<"str", s>>
NoneKey == <<"none">>

\* ------------------------------------------------------------------ Header
\* A Header is the sequence of its field names; _names2idxs maps each name
\* to its 0-based position.

\* Header.__contains__: str -> a field name; int -> an index in range;
\* anything else that is no Field or pair (None here) -> False.
HeaderContains(header, key) ==
    CASE key[1] = "str" -> \E i \in 1..Len(header) : header[i] = key[2]
      [] key[1] = "int" -> 0 <= key[2] /\ key[2] < Len(header)
      [] OTHER -> FALSE

\* Header.index_of(name): self._names2idxs[name], a dict of field names;
\* any key that is not a field name (an int index included) is a KeyError.
HeaderIndexOf(header, key) ==
    IF key[1] = "str" /\ \E i \in 1..Len(header) : header[i] = key[2]
    THEN [err |-> "none",
          idx |-> (CHOOSE i \in 1..Len(header) : header[i] = key[2]) - 1]
    ELSE [err |-> "KeyError", idx |-> -1]

\* ------------------------------------------------------------ RecordStream
\* A RecordStream is [name, header, records].

\* A has_name() that takes the '<unknown>' placeholder for a name.
HasName_Always(relation) == TRUE

HasName(relation) == relation.name # NoName

RelationName(relation) ==
    IF relation.name # NoName THEN relation.name ELSE Unknown

HasHeader(relation) == relation.header # NoHeader

\* RecordStream.order_by: the dummy implementation returns self.
OrderBy(relation, key) == relation

\* ------------------------------------------------------------- NamedItems
\* A NamedItems is a record with (at least) the fields names, items, n2i.

EmptyN2I == [n \in {} |-> 0]

NewNamedItems == [names |-> << >>, items |-> << >>, n2i |-> EmptyN2I]

\* An add that puts the new item in front of the others.
NamedItemsAdd_Prepend(self, name, item) ==
    IF name \in DOMAIN self.n2i
    THEN [err |-> "ValueError", self |-> self]
    ELSE [err |-> "none",
          self |-> [self EXCEPT
              !.n2i = [n \in (DOMAIN self.n2i) \cup {name} |->
                          IF n = name THEN Len(self.names) ELSE self.n2i[n]],
              !.names = Append(self.names, name),
              !.items = <<item>> \o self.items]]

NamedItemsAdd(self, name, item) ==
    IF name \in DOMAIN self.n2i
    THEN [err |-> "ValueError", self |-> self]
    ELSE [err |-> "none",
          self |-> [self EXCEPT
              !.n2i = [n \in (DOMAIN self.n2i) \cup {name} |->
                          IF n = name THEN Len(self.names) ELSE self.n2i[n]],
              !.names = Append(self.names, name),
              !.items = Append(self.items, item)]]

NameAt(self, index) == self.names[index + 1]

ItemAt(self, index) == self.items[index + 1]

ItemOf(self, name) == self.items[self.n2i[name] + 1]

\* names_items(): zip(self._names, self._items)
NamesItems(self) ==
    LET n == IF Len(self.names) <= Len(self.items) THEN Len(self.names)
             ELSE Len(self.items)
    IN [i \in 1..n |-> <<self.names[i], self.items[i]>>]

\* Relations.add: every relation here is a RecordStream, so the isinstance
\* test passes and the stream is added under its name property.
RelationsAdd(self, relation) ==
    NamedItemsAdd(self, RelationName(relation), relation)

\* --------------------------------------------------------- CollectedRecords
\* CollectedRecords.__init__: an entry [] for every name of relations.
RECURSIVE AddEmptyLists(_, _, _)
AddEmptyLists(self, names, i) ==
    IF i > Len(names) THEN self
    ELSE AddEmptyLists(NamedItemsAdd(self, names[i], << >>).self, names, i + 1)

\* A constructor that leaves the entries to later add calls.
CollectedRecordsInit_NoEntries(groupby_key, relations) ==
    [names |-> << >>, items |-> << >>, n2i |-> EmptyN2I,
     groupby_key |-> groupby_key]

CollectedRecordsInit(groupby_key, relations) ==
    AddEmptyLists(
        [names |-> << >>, items |-> << >>, n2i |-> EmptyN2I,
         groupby_key |-> groupby_key],
        relations.names, 1)

\* ------------------------------------------------------- itertools.groupby
\* groupby(relation.records(), itemgetter(col)) is [pos, tgt, cur, col]:
\* pos records have been read from the source, cur is the key of the last
\* one read (currkey), tgt the key of the current group (tgtkey), col the
\* column of the key function.

NewGroupby(col) == [pos |-> 0, tgt |-> Sentinel, cur |-> Sentinel, col |-> col]

\* next(groupby, None): read on while currkey == tgtkey; StopIteration of
\* the source gives the default None.
RECURSIVE GroupbyNext(_, _)
GroupbyNext(records, g) ==
    IF g.cur = g.tgt
    THEN IF g.pos = Len(records)
         THEN [g |-> g, kg |-> NoGroup]
         ELSE GroupbyNext(records,
                  [g EXCEPT !.pos = g.pos + 1,
                            !.cur = records[g.pos + 1][g.col + 1]])
    ELSE [g |-> [g EXCEPT !.tgt = g.cur], kg |-> g.cur]

\* A grouper that reads its source to the end, whatever the keys.
GrouperList_Drain(records, g, acc) ==
    [g |-> [g EXCEPT !.pos = Len(records),
                     !.cur = records[Len(records)][g.col + 1]],
     rows |-> SubSeq(records, g.pos, Len(records))]

\* list(grouper): yield currvalue and read on while currkey == tgtkey.
RECURSIVE GrouperList(_, _, _)
GrouperList(records, g, acc) ==
    IF g.cur # g.tgt THEN [g |-> g, rows |-> acc]
    ELSE IF g.pos = Len(records)
         THEN [g |-> g, rows |-> Append(acc, records[g.pos])]
         ELSE GrouperList(records,
                  [g EXCEPT !.pos = g.pos + 1,
                            !.cur = records[g.pos + 1][g.col + 1]],
                  Append(acc, records[g.pos]))

\* ------------------------------------------------------------ MergeCollect
\* A MergeCollect is a Relations (names, items, n2i) with _groupbys.
\* A relation specification is [shape, name, header, records, key]:
\*   "stream"       a RecordStream object
\*   "pair_stream"  (RecordStream, key)
\*   "pair_triple"  ((name, header, records), key)
\*   "triple"       (name, header, records)
\*   "other"        any other object

StreamOf(obj) ==
    [name |-> obj.name, header |-> obj.header, records |-> obj.records]

\* The shape branches of _interpret_as_ordered_relation (lines 107-127).
InterpretShape(obj, key) ==
    CASE obj.shape = "stream" ->
            [err |-> "none", relation |-> StreamOf(obj), key |-> key]
      [] obj.shape \in {"pair_stream", "pair_triple"} ->
            [err |-> "none", relation |-> StreamOf(obj), key |-> obj.key]
      [] OTHER ->
            [err |-> "ValueError", relation |-> StreamOf(obj), key |-> key]

\* MergeCollect._interpret_as_ordered_relation
InterpretAsOrderedRelation(obj, key) ==
    LET r == InterpretShape(obj, key) IN
    IF r.err # "none" THEN r
    ELSE IF ~HasName(r.relation) THEN [r EXCEPT !.err = "ValueError"]
    ELSE IF ~HasHeader(r.relation) THEN [r EXCEPT !.err = "ValueError"]
    ELSE IF ~HeaderContains(r.relation.header, r.key)
         THEN [r EXCEPT !.err = "ValueError"]
    ELSE r

NewMergeCollect ==
    [names |-> << >>, items |-> << >>, n2i |-> EmptyN2I, groupbys |-> << >>]

\* The loop of MergeCollect.__init__ from relation i on.
RECURSIVE InitLoop(_, _, _, _)
InitLoop(self, relations, i, arg_key) ==
    IF i > Len(relations) THEN [err |-> "none", self |-> self]
    ELSE
      LET r == InterpretAsOrderedRelation(relations[i], arg_key) IN
      IF r.err # "none" THEN [err |-> r.err, self |-> self]
      ELSE
        LET a == RelationsAdd(self, r.relation) IN
        IF a.err # "none" THEN [err |-> a.err, self |-> self]
        ELSE
          LET sorted == OrderBy(r.relation, r.key)
              ci == HeaderIndexOf(sorted.header, r.key)
          IN IF ci.err # "none" THEN [err |-> ci.err, self |-> a.self]
             ELSE InitLoop(
                    [a.self EXCEPT
                        !.groupbys = Append(@, NewGroupby(ci.idx))],
                    relations, i + 1, arg_key)

\* MergeCollect.__init__(*relations, key=arg_key)
MergeCollectInit(relations, arg_key) ==
    InitLoop(NewMergeCollect, relations, 1, arg_key)

\* indices_of_minimums(values); idx is 0-based.
RECURSIVE IndicesOfMinimumsFrom(_, _, _, _)
IndicesOfMinimumsFrom(values, idx, min_value, min_idxs) ==
    IF idx >= Len(values)
    THEN [min_value |-> min_value, min_idxs |-> min_idxs]
    ELSE LET value == values[idx + 1] IN
         IF value = None
         THEN IndicesOfMinimumsFrom(values, idx + 1, min_value, min_idxs)
         ELSE IF min_value = None \/ value < min_value
         THEN IndicesOfMinimumsFrom(values, idx + 1, value, <<idx>>)
         ELSE IF value = min_value
         THEN IndicesOfMinimumsFrom(values, idx + 1, min_value,
                                    Append(min_idxs, idx))
         ELSE IndicesOfMinimumsFrom(values, idx + 1, min_value, min_idxs)

\* A scan that passes over every falsy value, not only None.
IndicesOfMinimums_SkipFalsy(values) ==
    IndicesOfMinimumsFrom(
        [i \in 1..Len(values) |-> IF values[i] = 0 THEN None ELSE values[i]],
        0, None, << >>)

IndicesOfMinimums(values) ==
    IndicesOfMinimumsFrom(values, 0, None, << >>)

\* A merge that keeps the groups whose key is None.
SkipNulls_Keep(records, r) == r

\* "while (keys_groups[idx] is not None and keys_groups[idx][0] is None):
\*      keys_groups[idx] = next(self._groupbys[idx], None)"
RECURSIVE SkipNulls(_, _)
SkipNulls(records, r) ==
    IF r.kg # NoGroup /\ r.kg = None
    THEN SkipNulls(records, GroupbyNext(records, r.g))
    ELSE r

\* A key list that holds the cursor itself, also when it is None.
KeyOf_Cursor(kg) == kg

\* "kg[0] if kg is not None else None"
KeyOf(kg) == IF kg # NoGroup THEN kg ELSE None

\* all(keys_groups) in place of any(keys_groups).
AnyKeysGroups_All(keys_groups) ==
    \A i \in 1..Len(keys_groups) : keys_groups[i] # NoGroup

\* any(keys_groups): a (key, group) pair is truthy, None is not.
AnyKeysGroups(keys_groups) ==
    \E i \in 1..Len(keys_groups) : keys_groups[i] # NoGroup

\* A merge_collect generator is [pc, keys_groups, keys, min_idxs, records]:
\* pc is "start" (created, not run), "yield" (suspended at line 168) or
\* "finished"; records holds the local of that name once it is bound.
NewGenerator ==
    [pc |-> "start", keys_groups |-> << >>, keys |-> << >>,
     min_idxs |-> << >>, records |-> << >>]

NoGenerator == [NewGenerator EXCEPT !.pc = "none"]

\* Lines 146-157: the initial key-group pairs and keys.
InitialCursors(self, gen) ==
    LET n == Len(self.groupbys)
        first == [i \in 1..n |->
                    GroupbyNext(self.items[i].records, self.groupbys[i])]
        skipped == [i \in 1..n |-> SkipNulls(self.items[i].records, first[i])]
    IN [self |-> [self EXCEPT !.groupbys = [i \in 1..n |-> skipped[i].g]],
        gen |-> [gen EXCEPT
                   !.keys_groups = [i \in 1..n |-> skipped[i].kg],
                   !.keys = [i \in 1..n |-> KeyOf(skipped[i].kg)]]]

\* Lines 170-183: advance every relation of min_idxs, from position j on.
RECURSIVE Increment(_, _, _)
Increment(self, gen, j) ==
    IF j > Len(gen.min_idxs) THEN [self |-> self, gen |-> gen]
    ELSE LET min_idx == gen.min_idxs[j]
             records == self.items[min_idx + 1].records
             r == SkipNulls(records,
                      GroupbyNext(records, self.groupbys[min_idx + 1]))
         IN Increment(
              [self EXCEPT !.groupbys[min_idx + 1] = r.g],
              [gen EXCEPT !.keys_groups[min_idx + 1] = r.kg,
                          !.keys[min_idx + 1] = KeyOf(r.kg)],
              j + 1)

\* Lines 164-167: add the run of every relation of min_idxs, from j on.
RECURSIVE Collect(_, _, _, _)
Collect(self, records, min_idxs, j) ==
    IF j > Len(min_idxs)
    THEN [err |-> "none", self |-> self, records |-> records]
    ELSE LET min_idx == min_idxs[j]
             run == GrouperList(self.items[min_idx + 1].records,
                                self.groupbys[min_idx + 1], << >>)
             self2 == [self EXCEPT !.groupbys[min_idx + 1] = run.g]
             a == NamedItemsAdd(records, NameAt(self, min_idx), run.rows)
         IN IF a.err # "none"
            THEN [err |-> a.err, self |-> self2, records |-> records]
            ELSE Collect(self2, a.self, min_idxs, j + 1)

\* Lines 159-168: the loop test and the loop body up to the yield.
LoopToYield(self, gen) ==
    IF ~AnyKeysGroups(gen.keys_groups)
    THEN [self |-> self, gen |-> [gen EXCEPT !.pc = "finished"],
          result |-> "return"]
    ELSE LET m == IndicesOfMinimums(gen.keys)
             c == Collect(self, CollectedRecordsInit(m.min_value, self),
                          m.min_idxs, 1)
             gen2 == [gen EXCEPT !.min_idxs = m.min_idxs,
                                 !.records = <<c.records>>]
         IN IF c.err # "none"
            THEN [self |-> c.self, gen |-> [gen2 EXCEPT !.pc = "finished"],
                  result |-> c.err]
            ELSE [self |-> c.self, gen |-> [gen2 EXCEPT !.pc = "yield"],
                  result |-> "yield"]

\* next(generator): run merge_collect from where it is suspended to its
\* next yield, its return or the exception that ends it.
GeneratorNext(self, gen) ==
    LET s == IF gen.pc = "start" THEN InitialCursors(self, gen)
             ELSE Increment(self, gen, 1)
    IN LoopToYield(s.self, s.gen)

\* ------------------------------------------------- RecordStream.records
\* The records of a stream are an iterable whose iterator answers its p-th
\* next() with record p (steps[p] = TRUE) or by raising exception p
\* (steps[p] = FALSE).  An iterator object goes on after it has raised
\* (resumable); a generator that has raised is finished.  A record and an
\* exception are known by the number p of their step.  An error handler is
\* "own" (the error_handler the stream was constructed with), "given" (the
\* argument of records) or NoHandler (None).

NoHandler == "None"

\* iter(self._records)
NewIterator == [pos |-> 0, dead |-> FALSE]

\* next(record_iterator)
IteratorNext(strm, it) ==
    IF it.dead \/ it.pos >= Len(strm.steps)
    THEN [it |-> it, outcome |-> "stop", value |-> None]
    ELSE IF strm.steps[it.pos + 1]
    THEN [it |-> [it EXCEPT !.pos = it.pos + 1],
          outcome |-> "ok", value |-> it.pos + 1]
    ELSE [it |-> [it EXCEPT !.pos = it.pos + 1, !.dead = ~strm.resumable],
          outcome |-> "raise", value |-> it.pos + 1]

\* RecordStream._record_iterator: the plain iterator.
RecordIterator(strm) ==
    [kind |-> "plain", error_handler |-> NoHandler, it |-> NewIterator,
     record |-> None, done |-> FALSE]

\* RecordStream._record_error_iterator(error_handler): a generator with
\* the locals record_iterator and record (None at first).
RecordErrorIterator(strm, error_handler) ==
    [kind |-> "error", error_handler |-> error_handler, it |-> NewIterator,
     record |-> None, done |-> FALSE]

\* RecordStream.records(error_handler)
Records(strm, error_handler) ==
    IF error_handler = NoHandler
    THEN RecordIterator(strm)
    ELSE RecordErrorIterator(strm, error_handler)

\* RecordStream.__iter__: records with self's error handler.
StreamIterator(strm) == Records(strm, strm.error_handler)

\* The record iterator MergeCollect.__init__ hands to itertools.groupby:
\* relation.records(), without an error handler.
MergeCollectRecords(strm) == Records(strm, NoHandler)

\* next() of the generator _record_error_iterator: one turn of its loop.
\* After a handled exception control falls through to "yield record",
\* with record still bound to its previous value.
ErrorIteratorNext(strm, rd) ==
    LET n == IteratorNext(strm, rd.it) IN
    CASE n.outcome = "stop" ->
            [rd |-> [rd EXCEPT !.it = n.it, !.done = TRUE],
             result |-> "stop", value |-> None, calls |-> << >>]
      [] n.outcome = "raise" /\ rd.error_handler # NoHandler ->
            [rd |-> [rd EXCEPT !.it = n.it],
             result |-> "yield", value |-> rd.record,
             calls |-> <<[handler |-> rd.error_handler, exc |-> n.value,
                          record |-> rd.record]>>]
      [] n.outcome = "raise" /\ rd.error_handler = NoHandler ->
            [rd |-> [rd EXCEPT !.it = n.it, !.done = TRUE],
             result |-> "raise", value |-> n.value, calls |-> << >>]
      [] OTHER ->
            [rd |-> [rd EXCEPT !.it = n.it, !.record = n.value],
             result |-> "yield", value |-> n.value, calls |-> << >>]

\* next() of the plain iterator: its exception reaches the caller.
PlainIteratorNext(strm, rd) ==
    LET n == IteratorNext(strm, rd.it) IN
    [rd |-> [rd EXCEPT !.it = n.it],
     result |-> CASE n.outcome = "ok" -> "yield"
                  [] n.outcome = "raise" -> "raise"
                  [] OTHER -> "stop",
     value |-> n.value, calls |-> << >>]

\* next() of the iterator that records() returned.
ReaderNext(strm, rd) ==
    IF rd.done THEN [rd |-> rd, result |-> "stop", value |-> None,
                     calls |-> << >>]
    ELSE IF rd.kind = "error" THEN ErrorIteratorNext(strm, rd)
    ELSE PlainIteratorNext(strm, rd)

\* ------------------------------------------- project, select, order_by
\* A stream that answers queries is [cls, header, rows, project_cols,
\* filter_predicate, order_by_cols]: cls is "RecordStream" (records.py) or
\* "Table" (engines/sqlite.py); rows are _records, or the rows of the
\* database table; the last three are the members of a Table (<< >> and
\* NoPredicate for None).  A predicate is known by a number.  A column is
\* a key (IntKey, StrKey, NoneKey); an order-by column is <<column, order>>.

NoPredicate == 0

\* RecordStream._interpret_column: the name of the column, or the error.
\* DbError is not defined in records.py: raising it is a NameError.
InterpretColumn(self, col) ==
    IF col[1] \notin {"str", "int"} THEN [err |-> "ValueError", name |-> ""]
    ELSE IF ~HeaderContains(self.header, col)
    THEN [err |-> "NameError", name |-> ""]
    ELSE [err |-> "none",
          name |-> IF col[1] = "int" THEN self.header[col[2] + 1]
                   ELSE col[2]]

\* RecordStream._interpret_order_by_column for a (column, order) pair.
InterpretOrderByColumn(self, col_spec) ==
    LET col == col_spec[1]
        order == col_spec[2]
    IN IF col[1] \notin {"str", "int"}
       THEN [err |-> "ValueError", spec |-> << >>]
       ELSE IF ~HeaderContains(self.header, col)
       THEN [err |-> "NameError", spec |-> << >>]
       ELSE IF order \notin {"asc", "desc"}
       THEN [err |-> "ValueError", spec |-> << >>]
       ELSE [err |-> "none",
             spec |-> <<IF col[1] = "int" THEN self.header[col[2] + 1]
                        ELSE col[2], order>>]

\* The first error among the interpretations rs, or "none".
FirstError(rs) ==
    IF \A i \in 1..Len(rs) : rs[i].err = "none" THEN "none"
    ELSE rs[CHOOSE i \in 1..Len(rs) :
               /\ rs[i].err # "none"
               /\ \A j \in 1..(i - 1) : rs[j].err = "none"].err

\* A query answers [err, self, result, view]: self is the receiver after
\* the call, result says whether the object returned is the receiver
\* ("self") or another object ("copy"), view is the object returned.

\* RecordStream.project, select, order_by: "return self".
StreamProject(self, cols) ==
    [err |-> "none", self |-> self, result |-> "self", view |-> self]

StreamSelect(self, predicate) ==
    [err |-> "none", self |-> self, result |-> "self", view |-> self]

StreamOrderBy(self, cols) ==
    [err |-> "none", self |-> self, result |-> "self", view |-> self]

\* sqlite.Table.project: the columns are interpreted, self is copied, and
\* self.header.project is looked up: Header has no attribute project.
TableProject(self, cols) ==
    LET rs == [i \in 1..Len(cols) |-> InterpretColumn(self, cols[i])]
        e == FirstError(rs)
    IN [err |-> IF e # "none" THEN e ELSE "AttributeError",
        self |-> self, result |-> "none", view |-> self]

\* sqlite.Table.select: "self._filter_predicate = predicate; return self"
TableSelect(self, predicate) ==
    LET t == [self EXCEPT !.filter_predicate = predicate]
    IN [err |-> "none", self |-> t, result |-> "self", view |-> t]

\* sqlite.Table.order_by: the order-by columns are interpreted, assigned to
\* self._order_by_cols, and self is returned.
TableOrderBy(self, cols) ==
    LET rs == [i \in 1..Len(cols) |-> InterpretOrderByColumn(self, cols[i])]
        e == FirstError(rs)
        t == [self EXCEPT !.order_by_cols =
                            [i \in 1..Len(cols) |-> rs[i].spec]]
    IN IF e # "none"
       THEN [err |-> e, self |-> self, result |-> "none", view |-> self]
       ELSE [err |-> "none", self |-> t, result |-> "self", view |-> t]

Project(self, cols) ==
    IF self.cls = "Table" THEN TableProject(self, cols)
    ELSE StreamProject(self, cols)

Select(self, predicate) ==
    IF self.cls = "Table" THEN TableSelect(self, predicate)
    ELSE StreamSelect(self, predicate)

QueryOrderBy(self, cols) ==
    IF self.cls = "Table" THEN TableOrderBy(self, cols)
    ELSE StreamOrderBy(self, cols)

\* list(stream): RecordStream._record_iterator is iter(self._records);
\* sqlite.Table._record_iterator looks up db.quote_name to write its query,
\* and the module db has no attribute quote_name.
QueryRecords(self) ==
    IF self.cls = "Table" THEN [err |-> "AttributeError", rows |-> << >>]
    ELSE [err |-> "none", rows |-> self.rows]

\* ---------------------------------------------------------- Header.__init__
\* A field definition is <<"Field", name, type>> (a Field object),
\* <<"str", name>> (a name), <<"pair", name, type>> (a (name, type) pair) or
\* <<"triple", name, type>> (a tuple of another length).  A type is "int",
\* "str" or "object"; "None" is no type.  An argument is NoArg (None),
\* <<"list", defs>> (an iterable) or <<"dict", pairs>> (a mapping, a
\* sequence of pairs of distinct names); the types are <<"list", types>>;
\* the keyword arguments are a sequence of pairs of distinct names.

NoArg == <<"none">>

\* Field(name, typ): a missing type is object.
NewField(name, typ) ==
    [name |-> name, type |-> IF typ = "None" THEN "object" ELSE typ]

\* iter(fields): the elements of an iterable, the keys of a mapping, the
\* two members of a (name, type) tuple.
IterFields(fields) ==
    IF fields[1] = "dict"
    THEN [i \in 1..Len(fields[2]) |-> <<"str", fields[2][i][2]>>]
    ELSE IF fields[1] = "tuple" THEN <<fields[2], fields[3]>>
    ELSE fields[2]

\* A member of a tuple is a string <<"str", s>> or a class <<"type", t>>.
\* As the name of a Field it is itself; as its typ it is itself when it is
\* a class and its class otherwise (Field.__init__).
NameOfValue(v) ==
    IF v[1] = "str" THEN v[2]
    ELSE IF v[2] = "int" THEN "<class 'int'>" ELSE "<class 'str'>"

TypeOfValue(v) == IF v[1] = "type" THEN v[2] ELSE v[1]

\* zip(fields, types), fields being names: the pairs (name, type) up to
\* the end of the shorter.
ZipFieldsTypes(fields, types) ==
    IF fields[1] = "tuple"
    THEN LET firsts == IterFields(fields)
             seconds == IterFields(types)
         IN [i \in 1..2 |-> <<"pair", NameOfValue(firsts[i]),
                                      TypeOfValue(seconds[i])>>]
    ELSE
    LET names == IterFields(fields)
        n == IF Len(names) <= Len(types[2]) THEN Len(names)
             ELSE Len(types[2])
    IN [i \in 1..n |-> <<"pair", names[i][2], types[2][i]>>]

\* "Convert arguments to a standard form": the field definitions, the
\* keyword arguments chained after those of fields and types.
FieldDefs(fields, types, names_to_types) ==
    LET field_defs ==
            IF fields # NoArg /\ types # NoArg
            THEN ZipFieldsTypes(fields, types)
            ELSE IF fields[1] = "dict" THEN fields[2]
            ELSE IF fields # NoArg THEN IterFields(fields)
            ELSE << >>
    IN field_defs \o names_to_types

\* A Header is [fields, names2idxs]; fields are [name, type].
NewHeader == [fields |-> << >>, names2idxs |-> EmptyN2I]

\* A loop that appends a field whatever its name.
RECURSIVE HeaderLoop_NoDuplicateCheck(_, _, _)
HeaderLoop_NoDuplicateCheck(self, field_defs, i) ==
    IF i > Len(field_defs)
    THEN IF self.fields = << >>
         THEN [err |-> "ValueError", why |-> "no fields", self |-> self]
         ELSE [err |-> "none", why |-> "", self |-> self]
    ELSE LET field_def == field_defs[i] IN
         IF field_def[1] = "type"
         THEN [err |-> "TypeError", why |-> "no len", self |-> self]
         ELSE IF field_def[1] \notin {"Field", "str", "pair"}
         THEN [err |-> "ValueError", why |-> "not a field", self |-> self]
         ELSE LET field == IF field_def[1] = "str"
                           THEN NewField(field_def[2], "None")
                           ELSE NewField(field_def[2], field_def[3])
              IN HeaderLoop_NoDuplicateCheck(
                     [fields |-> Append(self.fields, field),
                      names2idxs |->
                          [n \in (DOMAIN self.names2idxs) \cup {field.name}
                              |-> IF n = field.name THEN Len(self.fields)
                                  ELSE self.names2idxs[n]]],
                     field_defs, i + 1)

\* "Process each field definition to construct a field" from definition i
\* on, and the check that at least one field was specified.
RECURSIVE HeaderLoop(_, _, _)
HeaderLoop(self, field_defs, i) ==
    IF i > Len(field_defs)
    THEN IF self.fields = << >>
         THEN [err |-> "ValueError", why |-> "no fields", self |-> self]
         ELSE [err |-> "none", why |-> "", self |-> self]
    ELSE LET field_def == field_defs[i] IN
         IF field_def[1] = "type"
         THEN [err |-> "TypeError", why |-> "no len", self |-> self]
         ELSE IF field_def[1] \notin {"Field", "str", "pair"}
         THEN [err |-> "ValueError", why |-> "not a field", self |-> self]
         ELSE LET field == IF field_def[1] = "str"
                           THEN NewField(field_def[2], "None")
                           ELSE NewField(field_def[2], field_def[3])
              IN IF field.name \in DOMAIN self.names2idxs
                 THEN [err |-> "ValueError", why |-> "duplicate",
                       self |-> self]
                 ELSE HeaderLoop(
                        [fields |-> Append(self.fields, field),
                         names2idxs |->
                             [n \in (DOMAIN self.names2idxs) \cup {field.name}
                                 |-> IF n = field.name THEN Len(self.fields)
                                     ELSE self.names2idxs[n]]],
                        field_defs, i + 1)

\* Header(fields, types, **names_to_types)
HeaderInit(fields, types, names_to_types) ==
    HeaderLoop(NewHeader, FieldDefs(fields, types, names_to_types), 1)

\* Header(*positional, **names_to_types): the first positional argument
\* is fields, the second types, and there is no third.
HeaderCall(args) ==
    IF args.extra # << >>
    THEN [err |-> "TypeError", why |-> "arguments", self |-> NewHeader]
    ELSE HeaderInit(args.fields, args.types, args.names_to_types)

\* A value is <<its class, itself>>.  Field.isinstance(obj):
\* isinstance(obj, self._type); every value is an object.
FieldIsInstance(field, obj) == field.type = "object" \/ obj[1] = field.type

\* The for loop of Header.isinstance from position i on: the index of the
\* last value when every value passes, -1 when one fails.
RECURSIVE IsInstanceLoop(_, _, _, _)
IsInstanceLoop(self, record, i, idx) ==
    IF i > Len(record) THEN idx
    ELSE IF \/ i - 1 >= Len(self.fields)
            \/ ~FieldIsInstance(self.fields[i], record[i])
    THEN -1
    ELSE IsInstanceLoop(self, record, i + 1, i - 1)

\* Header.isinstance(record): idx starts at 0 and is the index of the last
\* value after the loop; the length check compares it with len(self) - 1.
HeaderIsInstance(self, record) ==
    LET idx == IsInstanceLoop(self, record, 1, 0) IN
    IF idx = -1 THEN FALSE
    ELSE IF idx # Len(self.fields) - 1 THEN FALSE
    ELSE TRUE

\* header.project(*columns): the class Header defines no project, so the
\* attribute lookup fails before any column is looked at.
HeaderProject(self, columns) ==
    [err |-> "AttributeError", self |-> self, header |-> NewHeader]

\* ----------------------------------------------------------------- unquote
DoubleQuote == "\""
SingleQuote == "'"

\* A loop body that takes every quote character in quote mode for the end
\* of the quoted text.
UnquoteBody_NoDoubling(txt, qt, idx, mode, res) ==
    LET char == txt[idx + 1] IN
    IF char = qt
    THEN [char_idx |-> idx + 1, quote_mode |-> ~mode, result |-> res]
    ELSE [char_idx |-> idx + 1, quote_mode |-> mode,
          result |-> Append(res, char)]

\* The body of the while loop of unquote.
UnquoteBody(txt, qt, idx, mode, res) ==
    LET char == txt[idx + 1] IN
    IF char = qt
    THEN IF mode
         THEN IF idx + 1 < Len(txt) /\ txt[idx + 2] = qt
              THEN [char_idx |-> idx + 2, quote_mode |-> mode,
                    result |-> Append(res, qt)]
              ELSE [char_idx |-> idx + 1, quote_mode |-> FALSE,
                    result |-> res]
         ELSE [char_idx |-> idx + 1, quote_mode |-> TRUE, result |-> res]
    ELSE [char_idx |-> idx + 1, quote_mode |-> mode,
          result |-> Append(res, char)]

\* ------------------------------------------------------------ Relations.add
\* An object handed to Relations.add is [cls, name]: cls is "RecordStream"
\* or the class of another object; name is the _name of a stream.

\* An add that appends the name before it looks for a duplicate.
RelationsAddObject_AppendFirst(self, obj) ==
    IF obj.cls # "RecordStream"
    THEN [err |-> "ValueError", self |-> self]
    ELSE LET r == RelationsAdd(self, obj) IN
         IF r.err = "none" THEN r
         ELSE [err |-> r.err,
               self |-> [self EXCEPT
                            !.names = Append(@, RelationName(obj))]]

RelationsAddObject(self, obj) ==
    IF obj.cls # "RecordStream"
    THEN [err |-> "ValueError", self |-> self]
    ELSE RelationsAdd(self, obj)

\* Relations(*relations): add every relation in turn; the first add that
\* raises ends the construction.
RECURSIVE RelationsNewFrom(_, _, _)
RelationsNewFrom(self, relations, i) ==
    IF i > Len(relations) THEN [err |-> "none", self |-> self]
    ELSE LET r == RelationsAddObject(self, relations[i]) IN
         IF r.err # "none" THEN r
         ELSE RelationsNewFrom(r.self, relations, i + 1)

RelationsNew(relations) == RelationsNewFrom(NewNamedItems, relations, 1)

\* ------------------------------------------------------------------ inputs
H2 == <<"id", "val">>               \* Header([("id", int), ("val", int)])
RelNames == <<"a", "b", "c", "d">>  \* the names of relations 1, 2, ...
Cells == {None} \cup (1..MaxKey)

\* The i-th row of a relation is <<key, i>>: val tells the rows apart.
RowsOf(ks) == [i \in 1..Len(ks) |-> <<ks[i], i>>]

RelSpec(shape, name, header, records, key) ==
    [shape |-> shape, name |-> name, header |-> header,
     records |-> records, key |-> key]

\* Well-formed relations keyed on the name of their first column:
\* MergeCollect(*((stream, "id") for stream in ...)).  The key sequence
\* flat is cut into the key columns of n relations at the positions cut.
MergeRelations(n, flat, cut) ==
    [i \in 1..n |->
        RelSpec("pair_stream", RelNames[i], H2,
                RowsOf(SubSeq(flat, cut[i - 1] + 1, cut[i])), StrKey("id"))]

IsCut(n, t, cut) ==
    /\ cut[0] = 0
    /\ cut[n] = t
    /\ \A i \in 1..n : cut[i - 1] <= cut[i]

OneRow == <<<<1, 1>>>>

\* Relation specifications of every shape, with and without a name and a
\* header, with keys given by index, by name and as None.
SpecMenu ==
    {RelSpec("pair_stream", "a", H2, OneRow, k) :
        k \in {NoneKey, IntKey(0), IntKey(1), IntKey(2),
               StrKey("id"), StrKey("val"), StrKey("zz")}}
    \cup {RelSpec("pair_stream", "b", H2, OneRow, k) :
        k \in {IntKey(0), StrKey("id")}}
    \cup {RelSpec("pair_stream", NoName, H2, OneRow, StrKey("id")),
          RelSpec("pair_stream", "a", NoHeader, OneRow, StrKey("id")),
          RelSpec("pair_stream", NoName, NoHeader, OneRow, StrKey("id"))}
    \cup {RelSpec("pair_triple", nm, H2, << >>, k) :
        nm \in {"a", "b"}, k \in {IntKey(0), StrKey("id")}}
    \cup {RelSpec("pair_triple", "a", H2, << >>, NoneKey)}
    \cup {RelSpec("stream", "a", H2, OneRow, NoneKey),
          RelSpec("stream", "b", H2, OneRow, NoneKey),
          RelSpec("stream", NoName, H2, OneRow, NoneKey),
          RelSpec("stream", "a", NoHeader, OneRow, NoneKey)}
    \cup {RelSpec("triple", "a", H2, OneRow, NoneKey),
          RelSpec("other", NoName, NoHeader, << >>, NoneKey)}

\* The arguments of project, of select and of order_by.
ColumnLists ==
    {<< >>, <<StrKey("id")>>, <<IntKey(1)>>, <<StrKey("val"), IntKey(0)>>,
     <<StrKey("zz")>>, <<IntKey(2)>>, <<NoneKey>>}

Predicates == 1..MaxKey

OrderByLists ==
    {<< >>, <<<<StrKey("id"), "asc">>>>, <<<<StrKey("id"), "desc">>>>,
     <<<<IntKey(1), "desc">>, <<StrKey("id"), "asc">>>>,
     <<<<StrKey("zz"), "asc">>>>, <<<<StrKey("id"), "up">>>>,
     <<<<NoneKey, "asc">>>>}

\* The field definitions, names and types Header(...) is tried on.
FieldNames == {"id", "val"}
FieldTypes == {"int", "str"}

FieldDefMenu ==
    {<<"Field", n, "int">> : n \in FieldNames}
    \cup {<<"str", n>> : n \in FieldNames}
    \cup {<<"pair", n, "str">> : n \in FieldNames}
    \cup {<<"triple", "id", "int">>}

PairMenu == {<<"pair", n, "int">> : n \in FieldNames}
NameMenu == {<<"str", n>> : n \in FieldNames}

\* The (name, type) tuples handed to Header as positional arguments.
PositionalNames == FieldNames \cup {"label"}
PositionalPairs ==
    {<<"tuple", <<"str", n>>, <<"type", t>>>> :
        n \in PositionalNames, t \in FieldTypes}

\* The values of the records Header.isinstance is tried on.
ValueMenu == {<<"int", 1>>, <<"str", "x">>}

\* The arguments of Header.project.
ProjectLists ==
    {<<StrKey("id")>>, <<IntKey(0)>>, <<StrKey("val"), StrKey("id")>>,
     <<StrKey("zz")>>, <<IntKey(5)>>}

\* The items of a mapping or of keyword arguments: pairs of distinct names.
IsMapping(pairs) ==
    \A i, j \in 1..Len(pairs) :
        /\ pairs[i][1] = "pair"
        /\ i # j => pairs[i][2] # pairs[j][2]

\* The characters of the texts unquote is tried on, and the quote
\* characters it is called with.
Chars == {DoubleQuote, SingleQuote, "a"}
Quotes == {DoubleQuote, SingleQuote}

\* The text unquote is written for: a string between quote characters, its
\* own quote characters doubled.  The empty string gives the two quote
\* characters alone, which unquote reads (is_sql_identifier is another
\* function and is not asked).
RECURSIVE Doubled(_, _)
Doubled(str, qt) ==
    IF str = << >> THEN << >>
    ELSE (IF Head(str) = qt THEN <<qt, qt>> ELSE <<Head(str)>>)
         \o Doubled(Tail(str), qt)

QuoteText(str, qt) == <<qt>> \o Doubled(str, qt) \o <<qt>>

Strings == UNION {[1..n -> Chars] : n \in 0..MaxText}

\* The values indices_of_minimums is tried on: None, 0 and the keys.
MinValues == {None} \cup (0..MaxKey)

\* The rows CollectedRecords.add is given.
CollectRows == {<< >>, OneRow}

\* The objects Relations.add is tried on.
AddMenu ==
    {[cls |-> "RecordStream", name |-> n] : n \in {NoName, "a", "b", "c"}}
    \cup {[cls |-> "tuple", name |-> "a"]}

\* ------------------------------------------------------------------- state
VARIABLES
    relations,  \* the positional arguments of MergeCollect(...)
    arg_key,    \* its key argument
    phase,      \* "args", "constructed", or "failed" (__init__ raised)
    init_error, \* the exception __init__ raised, or "none"
    self,       \* the MergeCollect object
    gen,        \* the latest merge_collect generator
    gen_error,  \* the exception that ended it, or "none"
    yielded,    \* the groups yielded so far, each with its iteration
    iters       \* merge_collect() calls so far

\* A stream whose records are read.
VARIABLES
    stream,       \* [steps, resumable, error_handler]
    reader,       \* the iterator that records() returned
    via,          \* who asked for it: "none", "iter", "records", "merge"
    stream_out,   \* the values it has yielded
    handled,      \* the calls of error handlers: [handler, exc, record]
    stream_error  \* the exception the last next() let through, or None

\* A stream that is queried.
VARIABLES
    table,        \* the receiver of the queries
    view,         \* the last query: [op, valid, err, result, view, before]
    ncalls        \* queries so far

\* A Header that is constructed and projected.
VARIABLES
    header_args,  \* [fields, types, names_to_types]
    new_header,   \* [err, why, self] of Header(...), err "args" before
    projection,   \* [called, columns, err, header] of header.project(...)
    instance      \* [called, record, result] of header.isinstance(record)

\* A Relations that streams are added to.
VARIABLES
    registry,     \* the Relations object
    added,        \* the last add: [obj, err, before]
    nadds,        \* add calls so far
    collecting    \* a CollectedRecords over the Relations:
                  \* [made, key, self, todo, passed, err]

\* A call of db.unquote, at an evaluation of its loop condition.
VARIABLES
    text,         \* the argument, a sequence of characters
    quote,        \* the quote character
    char_idx,     \* 0-based index of the next character
    quote_mode,   \* inside quoted text
    result        \* the characters kept so far

\* A call of indices_of_minimums.
VARIABLES
    values,       \* the argument
    minimums      \* [done, min_value, min_idxs]

mergeVars == <<relations, arg_key, phase, init_error, self, gen, gen_error,
               yielded, iters>>
streamVars == <<stream, reader, via, stream_out, handled, stream_error>>
viewVars == <<table, view, ncalls>>
headerVars == <<header_args, new_header, projection, instance>>
relsVars == <<registry, added, nadds, collecting>>

unquoteVars == <<text, quote, char_idx, quote_mode, result>>
minVars == <<values, minimums>>

vars == <<mergeVars, streamVars, viewVars, headerVars, relsVars,
          unquoteVars, minVars>>

\* The values of the variables of a part that takes no step.
MergeIdle ==
    /\ relations = << >>
    /\ arg_key = IntKey(0)
    /\ phase = "args"
    /\ init_error = "none"
    /\ self = NewMergeCollect
    /\ gen = NoGenerator
    /\ gen_error = "none"
    /\ yielded = << >>
    /\ iters = 0

NoStream == [steps |-> << >>, resumable |-> TRUE, error_handler |-> NoHandler]

StreamIdle ==
    /\ stream = NoStream
    /\ reader = RecordIterator(NoStream)
    /\ via = "none"
    /\ stream_out = << >>
    /\ handled = << >>
    /\ stream_error = None

NoTable ==
    [cls |-> "RecordStream", header |-> H2, rows |-> << >>,
     project_cols |-> << >>, filter_predicate |-> NoPredicate,
     order_by_cols |-> << >>]

NoView ==
    [op |-> "none", valid |-> TRUE, err |-> "none", result |-> "none",
     view |-> NoTable, before |-> NoTable]

ViewIdle ==
    /\ table = NoTable
    /\ view = NoView
    /\ ncalls = 0

NoHeaderArgs ==
    [fields |-> NoArg, types |-> NoArg, names_to_types |-> << >>,
     extra |-> << >>]
HeaderPending == [err |-> "args", why |-> "", self |-> NewHeader]
NoProjection ==
    [called |-> FALSE, columns |-> << >>, err |-> "none", header |-> NewHeader]

NoInstance == [called |-> FALSE, record |-> << >>, result |-> FALSE]

HeaderIdle ==
    /\ header_args = NoHeaderArgs
    /\ new_header = HeaderPending
    /\ projection = NoProjection
    /\ instance = NoInstance

NoAdd ==
    [obj |-> [cls |-> "none", name |-> NoName], err |-> "none",
     before |-> NewNamedItems]

NoCollecting ==
    [made |-> FALSE, key |-> None,
     self |-> CollectedRecordsInit(None, NewNamedItems),
     todo |-> << >>, passed |-> << >>, err |-> "none"]

RelsIdle ==
    /\ registry = NewNamedItems
    /\ added = NoAdd
    /\ nadds = 0
    /\ collecting = NoCollecting

UnquoteIdle ==
    /\ text = << >>
    /\ quote = DoubleQuote
    /\ char_idx = 0
    /\ quote_mode = FALSE
    /\ result = << >>

NoMinimums == [done |-> FALSE, min_value |-> None, min_idxs |-> << >>]

MinIdle ==
    /\ values = << >>
    /\ minimums = NoMinimums

Init ==
    /\ \/ \E n \in 0..MaxRels, t \in 0..MaxRecs :
             \E flat \in [1..t -> Cells], cut \in [0..n -> 0..t] :
                /\ IsCut(n, t, cut)
                /\ relations = MergeRelations(n, flat, cut)
                /\ arg_key = IntKey(0)
       \/ \E n \in 1..MaxRels :
             \E rs \in [1..n -> SpecMenu], k \in {IntKey(0), StrKey("id")} :
                /\ relations = rs
                /\ arg_key = k
    /\ phase = "args"
    /\ init_error = "none"
    /\ self = NewMergeCollect
    /\ gen = NoGenerator
    /\ gen_error = "none"
    /\ yielded = << >>
    /\ iters = 0
    /\ StreamIdle /\ ViewIdle /\ HeaderIdle /\ RelsIdle
    /\ UnquoteIdle /\ MinIdle

\* mc = MergeCollect(*relations, key=arg_key)
Construct ==
    /\ phase = "args"
    /\ LET c == MergeCollectInit(relations, arg_key) IN
          /\ phase' = IF c.err = "none" THEN "constructed" ELSE "failed"
          /\ init_error' = c.err
          /\ self' = c.self
    /\ UNCHANGED <<relations, arg_key, gen, gen_error, yielded, iters>>
    /\ UNCHANGED <<streamVars, viewVars, headerVars, relsVars,
                   unquoteVars, minVars>>

\* An iteration that asks every relation for its records again:
\* groupby(relation.records(), ...) anew on each call.
MergeCollectCall_Reopen ==
    /\ phase = "constructed"
    /\ iters < MaxIters
    /\ gen.pc # "start"
    /\ gen' = NewGenerator
    /\ gen_error' = "none"
    /\ iters' = iters + 1
    /\ self' = [self EXCEPT !.groupbys =
                    [i \in 1..Len(@) |-> NewGroupby(@[i].col)]]
    /\ UNCHANGED <<relations, arg_key, phase, init_error, yielded>>
    /\ UNCHANGED <<streamVars, viewVars, headerVars, relsVars,
                   unquoteVars, minVars>>

\* iter(mc) / mc.merge_collect(): a new generator; an earlier one is dropped.
MergeCollectCall ==
    /\ phase = "constructed"
    /\ iters < MaxIters
    /\ gen.pc # "start"
    /\ gen' = NewGenerator
    /\ gen_error' = "none"
    /\ iters' = iters + 1
    /\ UNCHANGED <<relations, arg_key, phase, init_error, self, yielded>>
    /\ UNCHANGED <<streamVars, viewVars, headerVars, relsVars,
                   unquoteVars, minVars>>

\* next(generator)
GenNext ==
    /\ gen.pc \in {"start", "yield"}
    /\ Len(yielded) < MaxYield
    /\ LET r == GeneratorNext(self, gen) IN
          /\ self' = r.self
          /\ gen' = r.gen
          /\ gen_error' = IF r.result \in {"yield", "return"}
                          THEN "none" ELSE r.result
          /\ yielded' = IF r.result = "yield"
                        THEN Append(yielded,
                                 [iter |-> iters, group |-> r.gen.records[1]])
                        ELSE yielded
    /\ UNCHANGED <<relations, arg_key, phase, init_error, iters>>
    /\ UNCHANGED <<streamVars, viewVars, headerVars, relsVars,
                   unquoteVars, minVars>>

Next == Construct \/ MergeCollectCall \/ GenNext

Spec == Init /\ [][Next]_vars

\* ------------------------------------------- reading the records of a stream
\* RecordStream(records, name, header, error_handler=...) over an iterable
\* of at most MaxSteps steps.
StreamInit ==
    /\ \E n \in 0..MaxSteps :
          \E steps \in [1..n -> BOOLEAN], resumable \in BOOLEAN,
             error_handler \in {NoHandler, "own"} :
                stream = [steps |-> steps, resumable |-> resumable,
                          error_handler |-> error_handler]
    /\ reader = RecordIterator(NoStream)
    /\ via = "none"
    /\ stream_out = << >>
    /\ handled = << >>
    /\ stream_error = None
    /\ MergeIdle /\ ViewIdle /\ HeaderIdle /\ RelsIdle
    /\ UnquoteIdle /\ MinIdle

\* iter(stream)
StreamIter ==
    /\ via = "none"
    /\ reader' = StreamIterator(stream)
    /\ via' = "iter"
    /\ UNCHANGED <<stream, stream_out, handled, stream_error>>
    /\ UNCHANGED <<mergeVars, viewVars, headerVars, relsVars,
                   unquoteVars, minVars>>

\* stream.records(error_handler)
StreamRecords ==
    /\ via = "none"
    /\ \E error_handler \in {NoHandler, "given"} :
          reader' = Records(stream, error_handler)
    /\ via' = "records"
    /\ UNCHANGED <<stream, stream_out, handled, stream_error>>
    /\ UNCHANGED <<mergeVars, viewVars, headerVars, relsVars,
                   unquoteVars, minVars>>

\* MergeCollect((stream, key)): the iterator its groupby reads.
MergeCollectOpen ==
    /\ via = "none"
    /\ reader' = MergeCollectRecords(stream)
    /\ via' = "merge"
    /\ UNCHANGED <<stream, stream_out, handled, stream_error>>
    /\ UNCHANGED <<mergeVars, viewVars, headerVars, relsVars,
                   unquoteVars, minVars>>

\* next(reader), by the consumer or by the groupby of a merge_collect.  An
\* exception of next passes through groupby and merge_collect, which catch
\* nothing, to the caller; the reader itself is not closed by it, and the
\* caller may call next again: a plain reader then reads the next step of
\* a source that can go on, and only stops over a generator, which the
\* exception ended.  A next that only stops (StopIteration) changes
\* nothing.
StreamNext ==
    /\ via # "none"
    /\ LET r == ReaderNext(stream, reader) IN
          /\ reader' = r.rd
          /\ stream_out' = IF r.result = "yield"
                           THEN Append(stream_out, r.value) ELSE stream_out
          /\ handled' = handled \o r.calls
          /\ stream_error' = CASE r.result = "raise" -> r.value
                                [] r.result = "yield" -> None
                                [] OTHER -> stream_error
    /\ UNCHANGED <<stream, via>>
    /\ UNCHANGED <<mergeVars, viewVars, headerVars, relsVars,
                   unquoteVars, minVars>>

NextStream == StreamIter \/ StreamRecords \/ MergeCollectOpen \/ StreamNext

SpecStream == StreamInit /\ [][NextStream]_vars

\* --------------------------------------------------------- querying a stream
\* A RecordStream over a list of rows, or a sqlite Table of a connected
\* database, with a header and no query applied yet.
ViewInit ==
    /\ \E cls \in {"RecordStream", "Table"}, n \in 0..MaxRows :
          \E ks \in [1..n -> 1..MaxKey] :
             table = [NoTable EXCEPT !.cls = cls, !.rows = RowsOf(ks)]
    /\ view = NoView
    /\ ncalls = 0
    /\ MergeIdle /\ StreamIdle /\ HeaderIdle /\ RelsIdle
    /\ UnquoteIdle /\ MinIdle

\* The last query as the variable view records it: r is what the query
\* answered, valid whether its arguments name columns of the header.
LastQuery(op, valid, r) ==
    [op |-> op, valid |-> valid, err |-> r.err, result |-> r.result,
     view |-> r.view, before |-> table]

\* table.project(*cols)
CallProject ==
    /\ ncalls < MaxCalls
    /\ \E cols \in ColumnLists :
          LET r == Project(table, cols) IN
          /\ table' = r.self
          /\ view' = LastQuery("project",
                         \A i \in 1..Len(cols) :
                             HeaderContains(table.header, cols[i]),
                         r)
    /\ ncalls' = ncalls + 1
    /\ UNCHANGED <<mergeVars, streamVars, headerVars, relsVars,
                   unquoteVars, minVars>>

\* table.select(predicate)
CallSelect ==
    /\ ncalls < MaxCalls
    /\ \E predicate \in Predicates :
          LET r == Select(table, predicate) IN
          /\ table' = r.self
          /\ view' = LastQuery("select", TRUE, r)
    /\ ncalls' = ncalls + 1
    /\ UNCHANGED <<mergeVars, streamVars, headerVars, relsVars,
                   unquoteVars, minVars>>

\* table.order_by(*cols)
CallOrderBy ==
    /\ ncalls < MaxCalls
    /\ \E cols \in OrderByLists :
          LET r == QueryOrderBy(table, cols) IN
          /\ table' = r.self
          /\ view' = LastQuery("order_by",
                         \A i \in 1..Len(cols) :
                             /\ HeaderContains(table.header, cols[i][1])
                             /\ cols[i][2] \in {"asc", "desc"},
                         r)
    /\ ncalls' = ncalls + 1
    /\ UNCHANGED <<mergeVars, streamVars, headerVars, relsVars,
                   unquoteVars, minVars>>

NextView == CallSelect \/ CallOrderBy \/ CallProject

SpecView == ViewInit /\ [][NextView]_vars

\* ------------------------------------------------------ constructing a Header
\* The arguments of Header(...): an iterable of field definitions, a
\* mapping, parallel iterables of names and types, or nothing, each with
\* or without keyword arguments.
HeaderArgsInit ==
    /\ \E k \in 0..1 : \E kw \in [1..k -> PairMenu] :
          \/ \E n \in 0..MaxFields : \E defs \in [1..n -> FieldDefMenu] :
                header_args = [fields |-> <<"list", defs>>, types |-> NoArg,
                               names_to_types |-> kw,
                               extra |-> << >>]
          \/ \E n \in 0..MaxFields : \E pairs \in [1..n -> PairMenu] :
                /\ IsMapping(pairs)
                /\ header_args = [fields |-> <<"dict", pairs>>,
                                  types |-> NoArg, names_to_types |-> kw,
                                  extra |-> << >>]
          \/ \E n \in 0..MaxFields, m \in 0..MaxFields :
                \E names \in [1..n -> NameMenu], types \in [1..m -> FieldTypes] :
                   header_args = [fields |-> <<"list", names>>,
                                  types |-> <<"list", types>>,
                                  names_to_types |-> kw,
                                  extra |-> << >>]
          \/ header_args = [fields |-> NoArg, types |-> NoArg,
                            names_to_types |-> kw,
                            extra |-> << >>]
          \/ /\ k = 0
             /\ \E n \in 1..(MaxFields + 1) :
                   \E ps \in [1..n -> PositionalPairs] :
                      header_args =
                          [fields |-> ps[1],
                           types |-> IF n >= 2 THEN ps[2] ELSE NoArg,
                           names_to_types |-> kw,
                           extra |-> SubSeq(ps, 3, n)]
    /\ new_header = HeaderPending
    /\ projection = NoProjection
    /\ instance = NoInstance
    /\ MergeIdle /\ StreamIdle /\ ViewIdle /\ RelsIdle
    /\ UnquoteIdle /\ MinIdle

\* Header(*positional, **names_to_types)
HeaderNew ==
    /\ new_header.err = "args"
    /\ new_header' = HeaderCall(header_args)
    /\ UNCHANGED <<header_args, projection, instance>>
    /\ UNCHANGED <<mergeVars, streamVars, viewVars, relsVars,
                   unquoteVars, minVars>>

\* header.project(*columns)
HeaderProjectCall ==
    /\ new_header.err = "none"
    /\ ~projection.called
    /\ \E columns \in ProjectLists :
          LET r == HeaderProject(new_header.self, columns) IN
          /\ projection' = [called |-> TRUE, columns |-> columns,
                            err |-> r.err, header |-> r.header]
          /\ new_header' = [new_header EXCEPT !.self = r.self]
    /\ UNCHANGED <<header_args, instance>>
    /\ UNCHANGED <<mergeVars, streamVars, viewVars, relsVars,
                   unquoteVars, minVars>>

\* header.isinstance(record)
HeaderIsInstanceCall ==
    /\ new_header.err = "none"
    /\ ~instance.called
    /\ \E n \in 0..(MaxFields + 1) : \E record \in [1..n -> ValueMenu] :
          instance' = [called |-> TRUE, record |-> record,
                       result |-> HeaderIsInstance(new_header.self, record)]
    /\ UNCHANGED <<header_args, new_header, projection>>
    /\ UNCHANGED <<mergeVars, streamVars, viewVars, relsVars,
                   unquoteVars, minVars>>

NextHeader == HeaderNew \/ HeaderProjectCall \/ HeaderIsInstanceCall

SpecHeader == HeaderArgsInit /\ [][NextHeader]_vars

\* ------------------------------------------------------------------ unquote
\* unquote(text, quote) is called on any string and on quoted strings.
UnquoteInit ==
    /\ quote \in Quotes
    /\ \E str \in Strings : text \in {str, QuoteText(str, quote)}
    /\ char_idx = 0
    /\ quote_mode = FALSE
    /\ result = << >>
    /\ MergeIdle /\ StreamIdle /\ ViewIdle /\ HeaderIdle /\ RelsIdle
    /\ MinIdle

\* One pass of "while char_idx < len(text)".
UnquoteLoop ==
    /\ char_idx < Len(text)
    /\ LET r == UnquoteBody(text, quote, char_idx, quote_mode, result) IN
       /\ char_idx' = r.char_idx
       /\ quote_mode' = r.quote_mode
       /\ result' = r.result
    /\ UNCHANGED <<text, quote>>
    /\ UNCHANGED <<mergeVars, streamVars, viewVars, headerVars, relsVars,
                   minVars>>

NextUnquote == UnquoteLoop

SpecUnquote == UnquoteInit /\ [][NextUnquote]_vars

\* ------------------------------------------------------ indices_of_minimums
MinimumsInit ==
    /\ \E n \in 0..MaxVals : values \in [1..n -> MinValues]
    /\ minimums = NoMinimums
    /\ MergeIdle /\ StreamIdle /\ ViewIdle /\ HeaderIdle /\ RelsIdle
    /\ UnquoteIdle

\* min_value, min_idxs = indices_of_minimums(values)
IndicesOfMinimumsCall ==
    /\ ~minimums.done
    /\ LET r == IndicesOfMinimums(values) IN
       minimums' = [done |-> TRUE, min_value |-> r.min_value,
                    min_idxs |-> r.min_idxs]
    /\ UNCHANGED values
    /\ UNCHANGED <<mergeVars, streamVars, viewVars, headerVars, relsVars,
                   unquoteVars>>

NextMinimums == IndicesOfMinimumsCall

SpecMinimums == MinimumsInit /\ [][NextMinimums]_vars

\* ------------------------------------------------------------ Relations.add
\* Relations(*relations), for the arguments that construct: the state is
\* that after the constructor's adds, the last of them recorded in added.
RelationsInit ==
    /\ \E n \in 0..MaxRels : \E args \in [1..n -> AddMenu] :
          LET r == RelationsNew(args) IN
          /\ r.err = "none"
          /\ registry = r.self
          /\ added = IF n = 0 THEN NoAdd
                     ELSE [obj |-> args[n], err |-> "none",
                           before |-> RelationsNew(
                                        SubSeq(args, 1, n - 1)).self]
          /\ nadds = n
    /\ collecting = NoCollecting
    /\ MergeIdle /\ StreamIdle /\ ViewIdle /\ HeaderIdle
    /\ UnquoteIdle /\ MinIdle

\* relations.add(obj)
RelationsAddCall ==
    /\ nadds < MaxAdds
    /\ \E obj \in AddMenu :
          LET r == RelationsAddObject(registry, obj) IN
          /\ registry' = r.self
          /\ added' = [obj |-> obj, err |-> r.err, before |-> registry]
    /\ nadds' = nadds + 1
    /\ UNCHANGED collecting
    /\ UNCHANGED <<mergeVars, streamVars, viewVars, headerVars,
                   unquoteVars, minVars>>

\* CollectedRecords(key, relations); todo is relations.names() at the call.
CollectedRecordsNew ==
    /\ ~collecting.made
    /\ \E key \in 1..MaxKey :
          collecting' = [made |-> TRUE, key |-> key,
                         self |-> CollectedRecordsInit(key, registry),
                         todo |-> registry.names,
                         passed |-> << >>, err |-> "none"]
    /\ UNCHANGED <<registry, added, nadds>>
    /\ UNCHANGED <<mergeVars, streamVars, viewVars, headerVars,
                   unquoteVars, minVars>>

\* collected.add(name, rows) for the next of the registered names, as
\* merge_collect does for every relation that has the minimum key.
CollectedAdd ==
    /\ collecting.made
    /\ Len(collecting.passed) < Len(collecting.todo)
    /\ \E rows \in CollectRows :
          LET name == collecting.todo[Len(collecting.passed) + 1]
              r == NamedItemsAdd(collecting.self, name, rows)
          IN collecting' = [collecting EXCEPT
                               !.self = r.self,
                               !.passed = Append(@, rows),
                               !.err = r.err]
    /\ UNCHANGED <<registry, added, nadds>>
    /\ UNCHANGED <<mergeVars, streamVars, viewVars, headerVars,
                   unquoteVars, minVars>>

NextRelations == RelationsAddCall \/ CollectedRecordsNew \/ CollectedAdd

SpecRelations == RelationsInit /\ [][NextRelations]_vars

\* ------------------------------------------------- what the claims speak of
\* The column a key names, 0-based, or -1 if the header has no such column.
ColumnOf(header, key) ==
    IF key[1] = "int" /\ 0 <= key[2] /\ key[2] < Len(header) THEN key[2]
    ELSE IF key[1] = "str" /\ \E p \in 1..Len(header) : header[p] = key[2]
    THEN (CHOOSE p \in 1..Len(header) : header[p] = key[2]) - 1
    ELSE -1

\* The key a relation specification is given: its own, or the key argument.
GivenKey(obj) == IF obj.shape = "stream" THEN arg_key ELSE obj.key

IsRelationShape(obj) ==
    obj.shape \in {"stream", "pair_stream", "pair_triple"}

\* A relation with a name, a header and a key column of that header.
WellFormed(obj) ==
    /\ IsRelationShape(obj)
    /\ obj.name # NoName
    /\ obj.header # NoHeader
    /\ ColumnOf(obj.header, GivenKey(obj)) >= 0

DistinctNames ==
    \A i, j \in 1..Len(relations) :
        i # j => relations[i].name # relations[j].name

\* The key of a row of relation i, for a relation keyed on a column.
KeyColumn(i) == ColumnOf(relations[i].header, GivenKey(relations[i]))
RowKey(i, row) == row[KeyColumn(i) + 1]

\* Relation i as a sequence without the rows that fail Keep.
RECURSIVE SelectRows(_, _, _)
SelectRows(rows, Keep(_), acc) ==
    IF rows = << >> THEN acc
    ELSE SelectRows(Tail(rows), Keep,
                    IF Keep(Head(rows)) THEN Append(acc, Head(rows)) ELSE acc)

RowsOfKey(i, k) ==
    LET Keep(row) == RowKey(i, row) = k
    IN SelectRows(relations[i].records, Keep, << >>)

\* The non-null keys of relation i are in ascending order.
SortedByKey(i) ==
    LET recs == relations[i].records IN
    \A p, q \in 1..Len(recs) :
        (p < q /\ RowKey(i, recs[p]) # None /\ RowKey(i, recs[q]) # None)
            => RowKey(i, recs[p]) <= RowKey(i, recs[q])

AllWellFormed ==
    /\ \A i \in 1..Len(relations) : WellFormed(relations[i])
    /\ DistinctNames

SortedInput ==
    /\ AllWellFormed
    /\ \A i \in 1..Len(relations) : SortedByKey(i)

InputKeys ==
    UNION {{RowKey(i, relations[i].records[p]) :
               p \in 1..Len(relations[i].records)} :
           i \in 1..Len(relations)} \ {None}

\* The groups of the first iteration, in the order they were yielded.
Groups == [j \in 1..Len(yielded) |-> yielded[j].group]

FirstIteration == iters = 1
FirstIterationEnded == iters = 1 /\ gen.pc = "finished"

StrictlyIncreasing(seq) ==
    \A p, q \in 1..Len(seq) : p < q => seq[p] < seq[q]

IsPrefix(a, b) == Len(a) <= Len(b) /\ SubSeq(b, 1, Len(a)) = a

\* A relation specification without the rows whose key is None.
StripNulls(obj) ==
    LET col == ColumnOf(obj.header, GivenKey(obj))
        Keep(row) == row[col + 1] # None
    IN IF col < 0 THEN obj
       ELSE [obj EXCEPT !.records = SelectRows(@, Keep, << >>)]

\* list(generator), cut off after MaxYield groups.
RECURSIVE IterateFrom(_, _, _)
IterateFrom(s, g, out) ==
    IF Len(out.groups) >= MaxYield THEN out
    ELSE LET r == GeneratorNext(s, g) IN
         IF r.result = "yield"
         THEN IterateFrom(r.self, r.gen,
                  [out EXCEPT !.groups = Append(@, r.gen.records[1])])
         ELSE [out EXCEPT !.finished = TRUE,
                          !.error = IF r.result = "return"
                                    THEN "none" ELSE r.result]

\* list(MergeCollect(*rels, key=key)): what the first iteration delivers.
Delivered(rels, key) ==
    LET c == MergeCollectInit(rels, key)
        out == [init_error |-> c.err, groups |-> << >>,
                finished |-> FALSE, error |-> "none"]
    IN IF c.err # "none" THEN out
       ELSE IterateFrom(c.self, NewGenerator, out)

\* ------------------------------------------------------------------ claims

C2_OneCompleteGroupPerKey ==
    (SortedInput /\ FirstIterationEnded) =>
        \A k \in InputKeys :
            /\ Cardinality({j \in 1..Len(Groups) :
                               Groups[j].groupby_key = k}) = 1
            /\ \A j \in 1..Len(Groups) :
                  Groups[j].groupby_key = k =>
                      /\ Groups[j].names = self.names
                      /\ Groups[j].items =
                            [i \in 1..Len(relations) |-> RowsOfKey(i, k)]

\* The CollectedRecords merge_collect has constructed last and has yielded.
AllCollectedRecords ==
    {gen.records[j] : j \in 1..Len(gen.records)}
        \cup {Groups[j] : j \in 1..Len(Groups)}

\* C3: every CollectedRecords, the one merge_collect has just constructed
\* and every one it yielded, has an entry for each relation name of its
\* MergeCollect, in registration order, found by name at that position; the
\* entry of a relation with no row of the group's key is the empty list.
C3_EntryForEveryRelation ==
    \A cr \in AllCollectedRecords :
        /\ cr.names = self.names
        /\ Len(cr.items) = Len(self.names)
        /\ DOMAIN cr.n2i = {self.names[i] : i \in 1..Len(self.names)}
        /\ \A i \in 1..Len(self.names) :
              /\ cr.n2i[self.names[i]] = i - 1
              /\ RowsOfKey(i, cr.groupby_key) = << >> => cr.items[i] = << >>

C3_Witness ==
    /\ Len(self.names) >= 2
    /\ gen.records # << >>
    /\ gen.records[1].groupby_key # None
    /\ \E i \in 1..Len(self.names) :
          RowsOfKey(i, gen.records[1].groupby_key) = << >>

\* C4: null-keyed rows are invisible in the output: construction ends the
\* same way, and the first iteration yields the same groups and ends the same
\* way, as for the same relations without their null-keyed rows.
C4_NullRowsInvisible ==
    LET ref == Delivered([i \in 1..Len(relations) |->
                             StripNulls(relations[i])], arg_key)
    IN /\ phase # "args" => init_error = ref.init_error
       /\ FirstIteration =>
             /\ IsPrefix(Groups, ref.groups)
             /\ gen.pc = "finished" =>
                   /\ Groups = ref.groups
                   /\ ref.finished
                   /\ gen_error = ref.error

C4_Witness ==
    /\ FirstIterationEnded
    /\ \E i \in 1..Len(relations) :
          LET recs == relations[i].records IN
          /\ Len(recs) >= 3
          /\ RowKey(i, recs[1]) = None
          /\ RowKey(i, recs[2]) = None
          /\ RowKey(i, recs[3]) # None
          /\ self.groupbys[i].pos >= 3

\* C5: no yielded group has the key None or holds a row whose key is None,
\* and the single relation with the rows (None, x), (1, y), (None, z),
\* (2, w), keyed on its first column, yields exactly two groups, keyed 1 and
\* 2, of one row each.
C5_NullKeysDiscarded ==
    /\ \A j \in 1..Len(Groups) :
          /\ Groups[j].groupby_key # None
          /\ \A i \in 1..Len(Groups[j].items) :
                \A p \in 1..Len(Groups[j].items[i]) :
                    RowKey(i, Groups[j].items[i][p]) # None
    /\ ( /\ FirstIterationEnded
         /\ Len(relations) = 1
         /\ WellFormed(relations[1])
         /\ KeyColumn(1) = 0
         /\ relations[1].records = RowsOf(<<None, 1, None, 2>>) )
       => /\ Len(Groups) = 2
          /\ Groups[1].groupby_key = 1
          /\ Groups[1].items = << <<<<1, 2>>>> >>
          /\ Groups[2].groupby_key = 2
          /\ Groups[2].items = << <<<<2, 4>>>> >>

\* C6: a MergeCollect of zero relations is constructed, can be iterated and
\* yields no group.
C6_NoRelationsNoGroups ==
    relations = << >> =>
        /\ phase # "args" => phase = "constructed"
        /\ yielded = << >>
        /\ gen_error = "none"
        /\ gen.pc \in {"none", "start", "finished"}

C6_Witness ==
    relations = << >> /\ FirstIterationEnded

\* Every relation is given as ((name, header, []), 0).
EmptyTriples ==
    /\ Len(relations) >= 1
    /\ DistinctNames
    /\ \A i \in 1..Len(relations) :
          /\ relations[i].shape = "pair_triple"
          /\ relations[i].name # NoName
          /\ relations[i].header # NoHeader
          /\ relations[i].records = << >>
          /\ relations[i].key = IntKey(0)

\* C7: relations that have a name and a header but no records, each given
\* as ((name, header, []), 0): construction succeeds and the iteration
\* yields no group.
C7_EmptyRelationsNoGroups ==
    EmptyTriples =>
        /\ phase # "args" => phase = "constructed"
        /\ yielded = << >>
        /\ gen_error = "none"

\* A relation without a name, without a header or without its key column.
IllFormed(obj) ==
    /\ IsRelationShape(obj)
    /\ \/ obj.name = NoName
       \/ obj.header = NoHeader
       \/ ColumnOf(obj.header, GivenKey(obj)) < 0

NothingRead ==
    /\ \A i \in 1..Len(self.groupbys) : self.groupbys[i].pos = 0
    /\ yielded = << >>

\* C8: construction is fail-fast: if a supplied relation has no name, has no
\* header, or has a key that is no column of its header, __init__ raises and
\* no MergeCollect results; and until an iteration is started no record of
\* any relation has been read and no group has been produced.
C8_FailFast ==
    /\ ((\E i \in 1..Len(relations) : IllFormed(relations[i]))
            /\ phase # "args")
         => (phase = "failed" /\ init_error # "none")
    /\ iters = 0 => NothingRead
    /\ phase = "failed" => NothingRead

C8_Witness ==
    /\ phase = "failed"
    /\ Len(relations) = 2
    /\ Len(self.groupbys) = 1
    /\ IllFormed(relations[2])
    /\ relations[2].records # << >>

\* C9: when every relation's key is a 0-based index of a column of its
\* header (the default key 0 of a bare stream included) or the name of one,
\* construction succeeds and each relation is grouped on the column at that
\* position, the same column for a name as for its index.
C9_IndexKeyGroupsByColumn ==
    (AllWellFormed /\ phase # "args") =>
        /\ phase = "constructed"
        /\ \A i \in 1..Len(relations) : self.groupbys[i].col = KeyColumn(i)

\* A (relation, None) pair.
NoneKeyed(obj) ==
    /\ obj.shape \in {"pair_stream", "pair_triple"}
    /\ obj.key = NoneKey

NamedOrNoneKeys ==
    /\ DistinctNames
    /\ \E i \in 1..Len(relations) : NoneKeyed(relations[i])
    /\ \A i \in 1..Len(relations) :
          /\ relations[i].shape \in {"pair_stream", "pair_triple"}
          /\ relations[i].name # NoName
          /\ relations[i].header # NoHeader
          /\ \/ NoneKeyed(relations[i])
             \/ /\ relations[i].key[1] = "str"
                /\ ColumnOf(relations[i].header, relations[i].key) >= 0

\* C10: a relation specification whose key is None is keyed on column 0:
\* construction succeeds and the relation is grouped on its first column.
C10_NoneKeyDefaultsToFirstColumn ==
    (NamedOrNoneKeys /\ phase # "args") =>
        /\ phase = "constructed"
        /\ \A i \in 1..Len(relations) :
              NoneKeyed(relations[i]) => self.groupbys[i].col = 0

\* The key a relation specification is keyed on by the documentation of
\* __init__: its own, or the key argument when it comes without one.
DocumentedKey(obj) ==
    IF obj.shape \in {"stream", "triple"} THEN arg_key ELSE obj.key

\* Relations of the documented shapes, each with a name, a header and a key
\* that names a column of the header.
DocumentedRelations ==
    /\ DistinctNames
    /\ \A i \in 1..Len(relations) :
          /\ relations[i].shape \in
                {"stream", "pair_stream", "triple", "pair_triple"}
          /\ relations[i].name # NoName
          /\ relations[i].header # NoHeader
          /\ DocumentedKey(relations[i])[1] = "str"
          /\ ColumnOf(relations[i].header, DocumentedKey(relations[i])) >= 0

\* C11: a bare RecordStream, a (RecordStream, key) pair, a bare (name,
\* header, records) triple and a ((name, header, records), key) pair are all
\* accepted and registered as the same stream with the same key column; an
\* object of no such shape makes __init__ raise ValueError.
C11_DocumentedShapesAccepted ==
    /\ (DocumentedRelations /\ phase # "args") =>
          /\ phase = "constructed"
          /\ \A i \in 1..Len(relations) :
                /\ self.items[i] = StreamOf(relations[i])
                /\ self.groupbys[i].col =
                      ColumnOf(relations[i].header,
                               DocumentedKey(relations[i]))
    /\ ((\E i \in 1..Len(relations) : relations[i].shape = "other")
            /\ phase # "args")
          => phase = "failed"

\* The number of records each relation's iterator has been asked for.
ReadPositions == [i \in 1..Len(self.groupbys) |-> self.groupbys[i].pos]

\* C14: a constructed MergeCollect has one record iterator per relation,
\* obtained at construction (from the result of order_by); over all its
\* iterations no iterator is replaced or moved back to records it has
\* read: every source record is read at most once.
C14_EachRelationReadOnce ==
    [][ /\ phase' = "constructed" => Len(self'.groupbys) = Len(relations')
        /\ phase = "constructed" =>
              /\ Len(self'.groupbys) = Len(self.groupbys)
              /\ \A i \in 1..Len(self.groupbys) :
                    self'.groupbys[i].pos >= self.groupbys[i].pos ]_vars

C14_Witness ==
    /\ iters = 2
    /\ gen.pc = "finished"
    /\ \E i \in 1..Len(relations) :
          /\ Len(relations[i].records) >= 3
          /\ self.groupbys[i].pos = Len(relations[i].records)

\* The records relation i has read whose non-null key is greater than k.
ReadBeyond(i, k) ==
    {p \in 1..self.groupbys[i].pos :
        /\ RowKey(i, relations[i].records[p]) # None
        /\ RowKey(i, relations[i].records[p]) > k}

\* The key of the group the generator is suspended on at its yield.
YieldedKey == gen.records[1].groupby_key

\* At the moment a group of key k is yielded, no relation of a sorted input
\* has read more than one record whose non-null key is greater than k.
ReadAheadAtYield ==
    (SortedInput /\ gen.pc = "yield") =>
        \A i \in 1..Len(relations) :
            Cardinality(ReadBeyond(i, YieldedKey)) <= 1

\* A relation holds one run at most: it has one cursor (keys_groups[i], of
\* key keys[i]), and of the records beyond the run of its cursor it has
\* read one at most, the record its groupby has read ahead.
HoldsOneRun ==
    (SortedInput /\ phase = "constructed") =>
        /\ Len(gen.keys_groups) \in {0, Len(relations)}
        /\ \A i \in 1..Len(gen.keys) :
              gen.keys[i] # None =>
                  Cardinality(ReadBeyond(i, gen.keys[i])) <= 1

\* Construction alone reads no record.
ConstructionReadsNothing ==
    iters = 0 => \A i \in 1..Len(self.groupbys) : ReadPositions[i] = 0

C16_ConsumedInKeyOrder ==
    (AllWellFormed /\ phase = "constructed") =>
        \A i \in 1..Len(relations) :
            LET recs == OrderBy(self.items[i], self.groupbys[i].col).records
                col == self.groupbys[i].col
            IN \A p, q \in 1..Len(recs) :
                  (p < q /\ recs[p][col + 1] # None /\ recs[q][col + 1] # None)
                      => recs[p][col + 1] <= recs[q][col + 1]

\* The steps among the first n of the stream that produced a record, and
\* those that raised, in order.
RECURSIVE StepsWhere(_, _, _)
StepsWhere(steps, n, produced) ==
    IF n = 0 THEN << >>
    ELSE IF steps[n] = produced
    THEN Append(StepsWhere(steps, n - 1, produced), n)
    ELSE StepsWhere(steps, n - 1, produced)

\* C12: when a relation constructed with an error_handler is read by a
\* merge-collect and reading a record raises, the exception goes to that
\* handler, once for each failed read, and the reading goes on: no
\* exception reaches the consumer of the merge.
C12_MergeRoutesErrorsToHandler ==
    (via = "merge" /\ stream.error_handler # NoHandler) =>
        /\ stream_error = None
        /\ Len(handled) =
              Len(StepsWhere(stream.steps, reader.it.pos, FALSE))
        /\ \A c \in 1..Len(handled) :
              handled[c].handler = stream.error_handler

\* C13: records(error_handler=h) calls h exactly once for each exception of
\* the underlying iterator, with that exception, and yields exactly the
\* records the underlying iterator produced, in order: nothing for a failed
\* step, no record twice, no None.
C13_HandlerSkipsFailedRecords ==
    (via # "none" /\ reader.error_handler # NoHandler) =>
        /\ stream_error = None
        /\ [c \in 1..Len(handled) |-> handled[c].exc]
              = StepsWhere(stream.steps, reader.it.pos, FALSE)
        /\ \A c \in 1..Len(handled) :
              handled[c].handler = reader.error_handler
        /\ stream_out = StepsWhere(stream.steps, reader.it.pos, TRUE)

\* C17: project, select and order_by of existing columns each return a
\* new stream, not the receiver, and leave the receiver as it was: its
\* columns, its filter and its ordering are those from before the call, and
\* iterating it gives what it gave before.
C17_QueriesReturnNewViews ==
    (ncalls > 0 /\ view.valid) =>
        /\ view.err = "none"
        /\ view.result = "copy"
        /\ table = view.before
        /\ QueryRecords(table) = QueryRecords(view.before)

\* The names of the field definitions the arguments of Header(...) supply:
\* those of fields (with a type each when types are given), then those of
\* the keyword arguments.
SuppliedNames ==
    LET f == header_args.fields
        given == IF f = NoArg THEN << >>
                 ELSE [i \in 1..Len(f[2]) |-> f[2][i][2]]
        kw == header_args.names_to_types
    IN given \o [i \in 1..Len(kw) |-> kw[i][2]]

\* Arguments of an accepted form: every element defines a field, and
\* names given with types have a type each.
AcceptedForm ==
    LET f == header_args.fields IN
    /\ f[1] # "tuple"
    /\ f # NoArg => \A i \in 1..Len(f[2]) : f[2][i][1] # "triple"
    /\ (f # NoArg /\ header_args.types # NoArg)
          => Len(f[2]) = Len(header_args.types[2])

\* C18: Header(...) raises when two of the field definitions it is given
\* carry the same name and when it is given no field, in every input form;
\* a Header that was constructed has at least one field, its names are
\* pairwise distinct, and each name is indexed at its position.
C18_HeaderRejectsDuplicatesAndEmpty ==
    new_header.err # "args" =>
        /\ ( /\ AcceptedForm
             /\ \/ SuppliedNames = << >>
                \/ \E i, j \in 1..Len(SuppliedNames) :
                      i # j /\ SuppliedNames[i] = SuppliedNames[j] )
              => new_header.err = "ValueError"
        /\ new_header.err = "none" =>
              LET fields == new_header.self.fields IN
              /\ Len(fields) >= 1
              /\ \A i, j \in 1..Len(fields) :
                    i # j => fields[i].name # fields[j].name
              /\ DOMAIN new_header.self.names2idxs =
                    {fields[i].name : i \in 1..Len(fields)}
              /\ \A i \in 1..Len(fields) :
                    new_header.self.names2idxs[fields[i].name] = i - 1

C18_Witness ==
    /\ new_header.err = "ValueError"
    /\ new_header.why = "duplicate"
    /\ header_args.fields # NoArg
    /\ header_args.types # NoArg
    /\ Len(header_args.fields[2]) = 2
    /\ Len(header_args.types[2]) = 2
    /\ header_args.names_to_types = << >>

\* The column of a Header a key names, 0-based, or -1.
FieldColumn(hdr, key) ==
    ColumnOf([i \in 1..Len(hdr.fields) |-> hdr.fields[i].name], key)

\* C19: header.project(*columns) fails when a column does not exist;
\* otherwise it returns a new Header with exactly the chosen fields in the
\* chosen order, a projected name is indexed at the position it was chosen
\* at (so a projected record has there the value of the original column),
\* and the original Header is unchanged.
C19_ProjectSelectsColumns ==
    projection.called =>
        LET columns == projection.columns
            original == HeaderInit(header_args.fields, header_args.types,
                                   header_args.names_to_types).self
        IN /\ new_header.self = original
           /\ IF \E i \in 1..Len(columns) :
                    FieldColumn(original, columns[i]) < 0
              THEN projection.err # "none"
              ELSE /\ projection.err = "none"
                   /\ projection.header.fields =
                         [i \in 1..Len(columns) |->
                             original.fields[
                                 FieldColumn(original, columns[i]) + 1]]
                   /\ \A i \in 1..Len(columns) :
                         projection.header.names2idxs[
                             projection.header.fields[i].name] = i - 1

\* C20: Relations.add raises ValueError when its argument is not a
\* RecordStream, when the stream has no name, and when its name is that of
\* a relation registered before; in every other case the stream is
\* appended under its name.
C20_AddRejectsNamelessAndDuplicates ==
    nadds > 0 =>
        IF \/ added.obj.cls # "RecordStream"
           \/ added.obj.name = NoName
           \/ \E i \in 1..Len(added.before.items) :
                 added.before.items[i].name = added.obj.name
        THEN /\ added.err = "ValueError"
             /\ registry = added.before
        ELSE /\ added.err = "none"
             /\ registry.items = Append(added.before.items, added.obj)
             /\ registry.names = Append(added.before.names, added.obj.name)

\* C21: after any sequence of adds to a Relations, those of its
\* constructor included, names_relations() has one (name, relation) pair
\* per member, a successful add appends the pair of the added relation
\* after the earlier ones, names are pairwise distinct, and
\* relation_of(name_at(i)) is relation_at(i) for every index i.
C21_OrderedNameUnique ==
    LET pairs == NamesItems(registry) IN
    /\ Len(pairs) = Len(registry.items)
    /\ Len(pairs) = Len(registry.names)
    /\ \A i, j \in 1..Len(pairs) : i # j => pairs[i][1] # pairs[j][1]
    /\ \A i \in 1..Len(pairs) : pairs[i][1] = RelationName(pairs[i][2])
    /\ \A i \in 0..(Len(registry.names) - 1) :
          /\ NameAt(registry, i) \in DOMAIN registry.n2i
          /\ ItemOf(registry, NameAt(registry, i)) = ItemAt(registry, i)
    /\ (nadds > 0 /\ added.err = "none") =>
          pairs = Append(NamesItems(added.before),
                         <<RelationName(added.obj), added.obj>>)

C21_Witness ==
    /\ Len(registry.items) = 3
    /\ added.err = "none"
    /\ NameAt(registry, 2) = RelationName(added.obj)

\* C22: after CollectedRecords(key, relations) and one add(name, rows)
\* for each registered name, names_records() has exactly one (name, rows)
\* pair per relation, in registration order, with the rows that were
\* passed to add, and groupby_key is key.
C22_CollectedRowsPerRelation ==
    (collecting.made /\ Len(collecting.passed) = Len(collecting.todo)) =>
        /\ NamesItems(collecting.self) =
              [i \in 1..Len(collecting.todo) |->
                  <<collecting.todo[i], collecting.passed[i]>>]
        /\ collecting.self.groupby_key = collecting.key

\* C23: unquote scans the text with a quote-mode flag: a quote character
\* outside quote mode opens it and is dropped, a doubled quote character
\* inside quote mode becomes one literal quote character, a single quote
\* character inside quote mode closes it and is dropped, every other
\* character is kept in order; and the unquoted form of a string wrapped
\* in quote characters, its own quote characters doubled, is the string.
C23_UnquoteScan ==
    /\ [][ char_idx < Len(text) =>
             LET char == text[char_idx + 1]
                 doubled == /\ char_idx + 2 <= Len(text)
                            /\ text[char_idx + 2] = quote
             IN /\ (char = quote /\ ~quote_mode) =>
                      /\ quote_mode' /\ result' = result
                      /\ char_idx' = char_idx + 1
                /\ (char = quote /\ quote_mode /\ doubled) =>
                      /\ quote_mode' /\ result' = Append(result, quote)
                      /\ char_idx' = char_idx + 2
                /\ (char = quote /\ quote_mode /\ ~doubled) =>
                      /\ ~quote_mode' /\ result' = result
                      /\ char_idx' = char_idx + 1
                /\ char # quote =>
                      /\ quote_mode' = quote_mode
                      /\ result' = Append(result, char)
                      /\ char_idx' = char_idx + 1 ]_vars
    /\ [](\A str \in Strings :
             (text = QuoteText(str, quote) /\ char_idx >= Len(text))
                => result = str)

C23_Witness ==
    /\ text = QuoteText(<<"a", quote, quote>>, quote)
    /\ char_idx = Len(text)
    /\ result = <<"a", quote, quote>>

\* C24: an iteration of a MergeCollect over finite relations ends, and it
\* ends only when the grouped iterator of every relation is exhausted:
\* every source record has been read, and every record with a non-null key
\* is in a group that was yielded.
C24_EndsWhenAllExhausted ==
    (phase = "constructed" /\ FirstIteration /\ gen.pc = "finished") =>
        /\ gen_error = "none"
        /\ \A i \in 1..Len(self.groupbys) :
              /\ ReadPositions[i] = Len(self.items[i].records)
              /\ \A p \in 1..Len(self.items[i].records) :
                    LET row == self.items[i].records[p] IN
                    row[self.groupbys[i].col + 1] # None =>
                        \E j \in 1..Len(Groups) :
                            \E q \in 1..Len(Groups[j].items[i]) :
                                Groups[j].items[i][q] = row

\* C25: indices_of_minimums(values) returns (m, I), m the least of the
\* entries that are not None and I the ascending list of all indices whose
\* entry equals m, and (None, []) exactly when every entry is None or
\* there is none; 0 counts as a value.
C25_MinimumAndItsIndices ==
    minimums.done =>
        LET present == {i \in 1..Len(values) : values[i] # None}
            idxs == minimums.min_idxs
        IN IF present = {}
           THEN minimums.min_value = None /\ idxs = << >>
           ELSE /\ minimums.min_value # None
                /\ \E i \in present : values[i] = minimums.min_value
                /\ \A i \in present : minimums.min_value <= values[i]
                /\ StrictlyIncreasing(idxs)
                /\ {idxs[j] : j \in 1..Len(idxs)} =
                      {i - 1 : i \in {k \in present :
                                         values[k] = minimums.min_value}}

C25_Witness ==
    /\ minimums.done
    /\ values = <<0, None, 0>>
    /\ minimums.min_value = 0
    /\ minimums.min_idxs = <<0, 2>>

\* C26: header.isinstance(record) is true if and only if the record has as
\* many values as the header has fields and every value is an instance of
\* the type of the field at its position; it is false for an empty record
\* and for a record shorter or longer than the header.
C26_IsInstanceChecksArityAndTypes ==
    instance.called =>
        LET fields == new_header.self.fields
            record == instance.record
        IN instance.result <=>
              /\ Len(record) = Len(fields)
              /\ \A i \in 1..Len(record) :
                    \/ fields[i].type = "object"
                    \/ record[i][1] = fields[i].type

\* The (name, type) pairs of a call Header(p1, ..., pn).
PositionalArgs ==
    <<header_args.fields>>
    \o (IF header_args.types = NoArg THEN << >> ELSE <<header_args.types>>)
    \o header_args.extra

\* C27: Header(p1, ..., pn) with n >= 1 (name, type) pairs of distinct
\* names as positional arguments constructs a header of exactly n fields,
\* the i-th with the name and the type of pi.
C27_PositionalPairsDefineFields ==
    ( /\ new_header.err # "args"
      /\ header_args.fields[1] = "tuple"
      /\ \A i, j \in 1..Len(PositionalArgs) :
            i # j => PositionalArgs[i][2] # PositionalArgs[j][2] )
    => /\ new_header.err = "none"
       /\ new_header.self.fields =
             [i \in 1..Len(PositionalArgs) |->
                 [name |-> PositionalArgs[i][2][2],
                  type |-> PositionalArgs[i][3][2]]]

\* C28: whenever merge_collect has evaluated its loop condition (it is
\* suspended at its yield, has returned, or has failed in the loop body),
\* keys[i] is None exactly when the cursor keys_groups[i] is None, and
\* otherwise it is the key of the cursor's run, which is not None; so when
\* the loop body has run, indices_of_minimums(keys) gave a minimum that is
\* not None and an index list that is not empty.
C28_CursorInvariant ==
    (phase = "constructed" /\ gen.pc \in {"yield", "finished"}) =>
        /\ Len(gen.keys) = Len(self.groupbys)
        /\ Len(gen.keys_groups) = Len(self.groupbys)
        /\ \A i \in 1..Len(gen.keys) :
              /\ gen.keys[i] = None <=> gen.keys_groups[i] = NoGroup
              /\ gen.keys_groups[i] # NoGroup =>
                    /\ gen.keys[i] = gen.keys_groups[i]
                    /\ gen.keys[i] \in 1..MaxKey
        /\ (gen.pc = "yield" \/ gen_error # "none") =>
              /\ IndicesOfMinimums(gen.keys).min_value # None
              /\ IndicesOfMinimums(gen.keys).min_idxs # << >>
              /\ gen.min_idxs = IndicesOfMinimums(gen.keys).min_idxs

C28_Witness ==
    /\ phase = "constructed"
    /\ gen.pc = "finished"
    /\ gen_error # "none"
    /\ \E i \in 1..Len(gen.keys) : gen.keys[i] = None
    /\ \E i \in 1..Len(gen.keys) : gen.keys[i] = 2
    /\ gen.min_idxs # << >>

\* C29: when a second iteration of a MergeCollect is run after the first
\* one stopped part-way, the two iterations together yield every record
\* with a non-null key in exactly one group: none is dropped, none is
\* yielded twice.
C29_IterationsLoseNothing ==
    (phase = "constructed" /\ iters = 2 /\ gen.pc = "finished") =>
        \A i \in 1..Len(self.groupbys) :
            \A p \in 1..Len(self.items[i].records) :
                LET row == self.items[i].records[p] IN
                row[self.groupbys[i].col + 1] # None =>
                    Cardinality(
                        {j \in 1..Len(yielded) :
                            \E q \in 1..Len(yielded[j].group.items[i]) :
                                yielded[j].group.items[i][q] = row}) = 1

\* C30: an add that raises leaves the collection as it was: after a failed
\* Relations.add the names, the items and the name-to-index map are those
\* of before the call, so every later add gives what it would have given
\* without the failed call; and a failed NamedItems.add on a
\* CollectedRecords changes nothing of it.
C30_FailedAddChangesNothing ==
    /\ []((nadds > 0 /\ added.err # "none") =>
             /\ registry = added.before
             /\ \A obj \in AddMenu :
                   RelationsAddObject(registry, obj) =
                       RelationsAddObject(added.before, obj))
    /\ [][(collecting.made /\ collecting' # collecting
                           /\ collecting'.err # "none")
              => collecting'.self = collecting.self]_vars

C30_Witness ==
    /\ nadds = 3
    /\ Len(registry.items) = 2
    /\ added.err = "none"
    /\ collecting.err = "ValueError"

====
